---------------------------- MODULE Spec2Model ----------------------------
(***************************************************************************)
(* A model of the pattern generator (src/main.py): the configuration of a  *)
(* Main object from a JSON file, the random generation of the pattern and  *)
(* the turtle commands of one render pass.                                 *)
(*                                                                         *)
(* Coordinates are kept doubled (x2 = 2*x, y2 = 2*y) so that -width/2 and  *)
(* height/2 stay integers.  A colour token is the sequence of its          *)
(* characters, so that the hex-code pattern can be computed on it.         *)
(***************************************************************************)
EXTENDS Integers, Sequences, FiniteSets, TLC

(***************************************************************************)
(* Bounds of the model.                                                    *)
(***************************************************************************)
\* canvas widths tried are 0, 25, ..., 25 * WidthSteps
WidthSteps == 8
\* canvas heights tried are 0, 25, ..., 25 * HeightSteps
HeightSteps == 4
\* configuration files written in one run
MaxCreated == 1

(***************************************************************************)
(* Program constants.                                                      *)
(***************************************************************************)
NECESSARY_KEYS == {"speed", "height", "width", "side_length", "colours"}

\* upper bounds of the ranges the program prompts for
MaxWidth == 1000
MaxHeight == 1000
MaxSpeed == 10
MaxSideLength == 250
\* max_ of _colour_input, as __create_config_file calls it
MAX_COLOURS == 10

HexDigits ==
    {"0", "1", "2", "3", "4", "5", "6", "7", "8", "9",
     "a", "b", "c", "d", "e", "f", "A", "B", "C", "D", "E", "F"}

\* _HEX_CODE_REGEX, ^#(?:[0-9a-fA-F]{3}){1,2}$, on a token without newline
HEX_CODE_REGEX(s) ==
    /\ Len(s) \in {4, 7}
    /\ s[1] = "#"
    /\ \A i \in 2..Len(s) : s[i] \in HexDigits

(***************************************************************************)
(* Colour tokens and palettes found in configuration files.                *)
(***************************************************************************)
Red == <<"#", "f", "f", "0", "0", "0", "0">>
Green == <<"#", "0", "0", "f", "f", "0", "0">>
Blue == <<"#", "0", "0", "F">>
Abc == <<"#", "a", "b", "c">>
NamedRed == <<"r", "e", "d">>
\* the input that ends the colour prompt
Dollars == <<"$", "$", "$">>

Range(s) == {s[i] : i \in 1..Len(s)}

(***************************************************************************)
(* Files.  A path is modelled by what the file system holds there: whether *)
(* it is a regular file, its suffix, whether its text parses as JSON and   *)
(* to what ("object": a dict, "other": any other JSON value, "malformed":  *)
(* no JSON at all), and the dict itself.                                   *)
(***************************************************************************)
JsonFile(obj) ==
    [is_file |-> TRUE, suffix |-> ".json", kind |-> "object", json |-> obj]

Cfg(sp, w, h, sl, cs) ==
    [speed |-> sp, width |-> w, height |-> h, side_length |-> sl, colours |-> cs]

Without(obj, key) == [k \in (DOMAIN obj) \ {key} |-> obj[k]]

\* the contents ./config.json may have: configurations within the declared
\* ranges, with two or more hex colours
DefaultConfigs ==
    { Cfg(0, 100, 50, 50, <<Blue, Abc>>),
      Cfg(10, 50, 100, 50, <<Abc, Blue, Green>>) }

Widths == {25 * i : i \in 0..WidthSteps}
Heights == {25 * i : i \in 0..HeightSteps}
SideLengths == {50, 100, 250}

\* width = 200, height = 100, side_length = 50: 2 rows of 4 squares
Scenario == Cfg(5, 200, 100, 50, <<Red, Green>>)

\* configurations within the declared ranges: each width with one height,
\* each height with one width, and the corners of the ranges
ValidFiles ==
    { JsonFile(Cfg(5, w, 50, sl, <<Red, Green>>)) : w \in Widths, sl \in SideLengths }
    \cup { JsonFile(Cfg(5, 50, h, sl, <<Red, Green>>)) : h \in Heights, sl \in SideLengths }
    \cup { JsonFile(Scenario),
           JsonFile(Cfg(5, 0, 100, 50, <<Red, Green>>)),
           JsonFile(Cfg(5, 100, 0, 50, <<Red, Green>>)),
           JsonFile(Cfg(5, 0, 0, 1, <<Red, Green>>)),
           JsonFile(Cfg(5, MaxWidth, 250, MaxSideLength, <<Red, Green>>)),
           JsonFile(Cfg(1, 3, 1, 1, <<Red, Green, Blue>>)) }

\* a dict whose five values differ from those of every default
Alternative == Cfg(5, 150, 125, 100, <<Red, Green>>)

\* dicts that hold every key, with a value outside what is declared
OutOfRangeFiles ==
    { JsonFile([Alternative EXCEPT !.side_length = 0]),
      JsonFile([Alternative EXCEPT !.side_length = -50]),
      JsonFile([Alternative EXCEPT !.side_length = 251, !.width = 1001]),
      JsonFile([Alternative EXCEPT !.speed = 11]),
      JsonFile([Alternative EXCEPT !.speed = -1, !.height = -100]),
      JsonFile([Alternative EXCEPT !.height = 1001, !.side_length = 250, !.width = 0]),
      JsonFile([Alternative EXCEPT !.colours = <<Abc>>]),
      JsonFile([Alternative EXCEPT !.colours = <<Red, NamedRed>>]),
      JsonFile([Alternative EXCEPT !.colours = <<>>]),
      JsonFile([Alternative EXCEPT !.colours = <<>>, !.width = 0]) }

\* dicts that lack keys
IncompleteFiles ==
    { JsonFile(Without(Alternative, key)) : key \in NECESSARY_KEYS }
    \cup { JsonFile([speed |-> 7]) }

\* paths that hold no dict, no JSON, no .json file or no file
NonConfigFiles ==
    { [is_file |-> TRUE, suffix |-> ".json", kind |-> "malformed", json |-> [speed |-> 0]],
      [is_file |-> TRUE, suffix |-> ".json", kind |-> "other", json |-> [speed |-> 0]],
      [is_file |-> TRUE, suffix |-> ".txt", kind |-> "object", json |-> Alternative],
      [is_file |-> FALSE, suffix |-> ".json", kind |-> "object", json |-> Alternative] }

\* the paths that can be named when ./alt-configs/ holds this fixed set of
\* files (Spec; menu option 3, which writes a new one, is in SpecCreate)
AltFiles == ValidFiles \cup OutOfRangeFiles \cup IncompleteFiles \cup NonConfigFiles

(***************************************************************************)
(* State.                                                                  *)
(***************************************************************************)
VARIABLES
    pc,               \* where the program is
    error,            \* the exception that ended the program, "" if none
    DEFAULT_CONFIG,   \* _DEFAULT_CONFIG, the dict loaded from ./config.json
    file,             \* the path last handed to _check_valid_file
    config_contents,  \* Main.__config_contents
    speed,            \* Main.__speed
    width,            \* Main.__width
    height,           \* Main.__height
    side_length,      \* Main.__side_length
    colours,          \* Main.__colours
    pattern,          \* Main.__pattern
    gen_colours,      \* the colours argument of the __gen_pattern call that
                      \* returned the pattern
    t,                \* the turtle Main.__t
    win,              \* the screen Main.__win
    row,              \* index of the row being drawn
    item,             \* index of the item being drawn in the row
    side,             \* sides of the current square already traced
    canvas,           \* what the canvas has been told so far
    entered,          \* width, height, speed and side_length of
                      \* __create_config_file
    results,          \* results of _colour_input
    created           \* the files __create_config_file has written

config == <<config_contents, speed, width, height, side_length, colours, pattern,
            gen_colours>>
render == <<t, win, row, item, side, canvas>>
create == <<entered, results, created>>
vars == <<pc, error, DEFAULT_CONFIG, file, config, render, create>>


(***************************************************************************)
(* Pure functions.                                                         *)
(***************************************************************************)
\* round-half-to-even of a / b, for a >= 0 and b > 0
RoundHalfEven(a, b) ==
    LET q == a \div b
        r == a % b
    IN  IF 2 * r < b THEN q
        ELSE IF 2 * r > b THEN q + 1
        ELSE IF q % 2 = 0 THEN q ELSE q + 1

\* a round that rounds halves away from zero
PyRoundHalfUp(n, d) ==
    LET a == IF n < 0 THEN -n ELSE n
        b == IF d < 0 THEN -d ELSE d
        k == (2 * a + b) \div (2 * b)
    IN  IF (n < 0) = (d < 0) THEN k ELSE -k

\* round(n / d) of Python 3, d # 0: a float division, then the built-in
\* round, which rounds halves to the even neighbour and is odd in its
\* argument.  For the sizes of this model the float quotient is a tie
\* exactly when n / d is.
PyRound(n, d) ==
    LET a == IF n < 0 THEN -n ELSE n
        b == IF d < 0 THEN -d ELSE d
    IN  IF (n < 0) = (d < 0) THEN RoundHalfEven(a, b) ELSE -RoundHalfEven(a, b)

\* range(n): empty for n <= 0
PyRange(n) == 1..n

\* a __gen_pattern that draws from the default palette
gen_pattern_default(width_, height_, colours_) ==
    [PyRange(height_) -> [PyRange(width_) -> Range(DEFAULT_CONFIG.colours)]]

\* Main.__gen_pattern: every list of `height` rows of `width` cells, each
\* cell one choice(colours)
gen_pattern(width_, height_, colours_) ==
    [PyRange(height_) -> [PyRange(width_) -> Range(colours_)]]

\* a _check_valid_file that does not look for the keys
check_valid_file_no_keys(f) ==
    IF f.is_file /\ f.suffix = ".json"
    THEN IF f.kind = "malformed" THEN "JSONDecodeError"
         ELSE IF f.kind = "other" THEN "AttributeError"
         ELSE "True"
    ELSE "False"

\* _check_valid_file: "True", "False", or the exception _load_config or
\* .keys() raises
check_valid_file(f) ==
    IF f.is_file /\ f.suffix = ".json"
    THEN IF f.kind = "malformed" THEN "JSONDecodeError"
         ELSE IF f.kind = "other" THEN "AttributeError"
         ELSE IF \E key \in NECESSARY_KEYS : key \notin DOMAIN f.json
              THEN "False"
              ELSE "True"
    ELSE "False"

\* _load_config() of the default file, which parsed when the module loaded
load_default == DEFAULT_CONFIG

\* contents[key] if key in contents.keys() else _DEFAULT_CONFIG[key]
Lookup(contents, key) ==
    IF key \in DOMAIN contents THEN contents[key] ELSE DEFAULT_CONFIG[key]

(***************************************************************************)
(* The canvas.                                                             *)
(***************************************************************************)
NoCommands ==
    [penup |-> 0, pendown |-> 0, goto |-> 0, color |-> 0, begin_fill |-> 0,
     end_fill |-> 0, forward |-> 0, right |-> 0]

\* one square-draw sequence, as operations
SquareSeq ==
    <<"pendown", "color", "begin_fill", "forward", "right", "forward", "right",
      "forward", "right", "forward", "right", "end_fill">>

\* the turtle after a command; arg is a distance, an angle, a colour or a
\* doubled position
TurtleDo(op, arg) ==
    CASE op = "penup" -> [t EXCEPT !.pen = "up"]
      [] op = "pendown" -> [t EXCEPT !.pen = "down"]
      [] op = "goto" -> [t EXCEPT !.x2 = arg[1], !.y2 = arg[2]]
      [] op = "color" -> [t EXCEPT !.color = arg]
      [] op = "begin_fill" -> [t EXCEPT !.filling = TRUE]
      [] op = "end_fill" -> [t EXCEPT !.filling = FALSE]
      [] op = "right" -> [t EXCEPT !.heading = (t.heading - arg) % 360]
      [] op = "forward" ->
            CASE t.heading = 0 -> [t EXCEPT !.x2 = t.x2 + 2 * arg]
              [] t.heading = 90 -> [t EXCEPT !.y2 = t.y2 + 2 * arg]
              [] t.heading = 180 -> [t EXCEPT !.x2 = t.x2 - 2 * arg]
              [] t.heading = 270 -> [t EXCEPT !.y2 = t.y2 - 2 * arg]

\* whether the command is the one a square-draw sequence expects next
Expected(op, arg, n) ==
    /\ op = SquareSeq[n]
    /\ op = "forward" => arg = side_length
    /\ op = "right" => arg = 90

\* what the canvas has been told, after a command: the count of each
\* operation, the square-draw sequences completed and the progress of the
\* current one, and the row advances (a goto to x = -width/2, one
\* side_length lower, right after a penup)
Observe(op, arg) ==
    LET next == IF Expected(op, arg, canvas.progress + 1) THEN canvas.progress + 1
                ELSE IF Expected(op, arg, 1) THEN 1 ELSE 0
        advance == /\ op = "goto"
                   /\ canvas.positioned
                   /\ canvas.last = "penup"
                   /\ arg = <<-width, t.y2 - 2 * side_length>>
    IN  [cmds |-> [canvas.cmds EXCEPT ![op] = @ + 1],
         progress |-> IF next = Len(SquareSeq) THEN 0 ELSE next,
         squares |-> IF next = Len(SquareSeq) THEN canvas.squares + 1
                     ELSE canvas.squares,
         row_advances |-> IF advance THEN canvas.row_advances + 1
                          ELSE canvas.row_advances,
         positioned |-> canvas.positioned \/ op = "goto",
         last |-> op]

Issue(op, arg) ==
    /\ t' = TurtleDo(op, arg)
    /\ canvas' = Observe(op, arg)

\* Turtle.speed: a value outside 1..10 means 0
TurtleSpeed(s) == IF 1 <= s /\ s <= 10 THEN s ELSE 0

\* the locals of __create_config_file outside a call
NoEntry == [width |-> 0, height |-> 0, speed |-> 0, side_length |-> 0]

(***************************************************************************)
(* Init: the module is loaded and Main() is constructed.                   *)
(***************************************************************************)
\* the state of a loaded module with control at `at`
Loaded(at) ==
    /\ pc = at
    /\ error = ""
    /\ DEFAULT_CONFIG \in DefaultConfigs
    /\ file = JsonFile(DEFAULT_CONFIG)
    /\ config_contents = [unset |-> TRUE]
    /\ speed = 0
    /\ width = 0
    /\ height = 0
    /\ side_length = 0
    /\ colours = <<>>
    /\ pattern = <<>>
    /\ gen_colours = <<>>
    /\ t = [x2 |-> 0, y2 |-> 0, heading |-> 0, pen |-> "down", filling |-> FALSE,
            color |-> <<"b", "l", "a", "c", "k">>, shown |-> TRUE, speed |-> 3]
    /\ win = [width |-> 0, height |-> 0, open |-> TRUE]
    /\ row = 1
    /\ item = 1
    /\ side = 0
    /\ canvas = [cmds |-> NoCommands, progress |-> 0, squares |-> 0,
                 row_advances |-> 0, positioned |-> FALSE, last |-> ""]
    /\ entered = NoEntry
    /\ results = <<>>
    /\ created = {}

Init == Loaded("start")

\* an uncaught exception ends the program
Raise(exception) ==
    /\ pc' = "crashed"
    /\ error' = exception

(***************************************************************************)
(* Main.__config(file), returning to `ret`.                                *)
(***************************************************************************)
Config(f, ret) ==
    LET ok == check_valid_file(f)
    IN  /\ file' = f
        /\ UNCHANGED <<DEFAULT_CONFIG, render, create>>
        /\ IF ok \notin {"True", "False"}
           THEN /\ Raise(ok)
                /\ UNCHANGED config
           ELSE LET contents == IF ok = "True" THEN f.json ELSE load_default
                    sl == Lookup(contents, "side_length")
                    cs == Lookup(contents, "colours")
                IN  /\ config_contents' = contents
                    /\ speed' = Lookup(contents, "speed")
                    /\ width' = Lookup(contents, "width")
                    /\ height' = Lookup(contents, "height")
                    /\ side_length' = sl
                    /\ colours' = cs
                    /\ IF sl = 0
                       THEN /\ Raise("ZeroDivisionError")
                            /\ UNCHANGED <<pattern, gen_colours>>
                       ELSE LET w == PyRound(width', sl)
                                h == PyRound(height', sl)
                            IN  IF w > 0 /\ h > 0 /\ cs = <<>>
                                THEN /\ Raise("IndexError")
                                     /\ UNCHANGED <<pattern, gen_colours>>
                                ELSE /\ pattern' \in gen_pattern(w, h, cs)
                                     /\ gen_colours' = cs
                                     /\ pc' = ret
                                     /\ UNCHANGED error

\* Main.run(file): configure, then the menu
RunWith(files) ==
    /\ pc = "start"
    /\ \E f \in files : Config(f, "menu")

Run == RunWith(AltFiles \cup {JsonFile(DEFAULT_CONFIG)})

(***************************************************************************)
(* Main.__menu: one input of the menu loop.                                *)
(***************************************************************************)
MenuDraw ==
    /\ pc = "menu"
    /\ pc' = "draw"
    /\ UNCHANGED <<error, DEFAULT_CONFIG, file, config, render, create>>

MenuChange ==
    /\ pc = "menu"
    /\ pc' = "change"
    /\ UNCHANGED <<error, DEFAULT_CONFIG, file, config, render, create>>

\* "4": the loop breaks, run returns and the program ends
MenuQuit ==
    /\ pc = "menu"
    /\ pc' = "returned"
    /\ UNCHANGED <<error, DEFAULT_CONFIG, file, config, render, create>>

\* any other input: an error message, and the menu again
MenuInvalid ==
    /\ pc = "menu"
    /\ UNCHANGED vars

(***************************************************************************)
(* Main.__change_config_file: one input of its loop.  A name that is not   *)
(* valid is asked for again; a valid one is configured.                    *)
(***************************************************************************)
ChangeConfigFileAmong(files) ==
    /\ pc = "change"
    /\ \E f \in files :
          LET ok == check_valid_file(f)
          IN  IF ok = "True" THEN Config(f, "menu")
              ELSE IF ok = "False" THEN UNCHANGED vars
              ELSE /\ Raise(ok)
                   /\ file' = f
                   /\ UNCHANGED <<DEFAULT_CONFIG, config, render, create>>

ChangeConfigFile == ChangeConfigFileAmong(AltFiles \cup {JsonFile(DEFAULT_CONFIG)})

(***************************************************************************)
(* Main.__draw_pattern, one call on the turtle or the screen per step.     *)
(***************************************************************************)
\* a cell read from the other end of its row
CellColourReversed(r, i) == pattern[r][Len(pattern[r]) + 1 - i]

\* the item the loops have reached: item i of row r
CellColour(r, i) == pattern[r][i]

\* an item loop that stops one item early
ItemHeadSkipsLast(r, i) == IF i >= Len(pattern[r]) THEN "row_penup" ELSE "pendown"

\* for item in row: the first command for item i of row r, if there is one
ItemHead(r, i) == IF i > Len(pattern[r]) THEN "row_penup" ELSE "pendown"

\* a row loop that runs once more, on a row of no items
RowHeadExtraRow(r) ==
    IF r > Len(pattern) + 1 THEN "sleep"
    ELSE IF r > Len(pattern) THEN "row_penup"
    ELSE ItemHead(r, 1)

\* for row in self.__pattern
RowHead(r) == IF r > Len(pattern) THEN "sleep" ELSE ItemHead(r, 1)

\* a square of three sides
SideHeadThree(n) == IF n < 3 THEN "forward" ELSE "end_fill"

\* for _ in range(4)
SideHead(n) == IF n < 4 THEN "forward" ELSE "end_fill"

\* a render pass that returns to the menu loop
AfterExitToMenu == "menu"

\* sysexit(): SystemExit ends the program
AfterExit == "exited"

Step(from, to) ==
    /\ pc = from
    /\ pc' = to
    /\ UNCHANGED <<error, DEFAULT_CONFIG, file, config, create>>

DrawSetup ==
    /\ Step("draw", "hideturtle")
    /\ win' = [win EXCEPT !.width = width, !.height = height]
    /\ UNCHANGED <<t, row, item, side, canvas>>

DrawHideTurtle ==
    /\ Step("hideturtle", "speed")
    /\ t' = [t EXCEPT !.shown = FALSE]
    /\ UNCHANGED <<win, row, item, side, canvas>>

DrawSpeed ==
    /\ Step("speed", "penup")
    /\ t' = [t EXCEPT !.speed = TurtleSpeed(speed)]
    /\ UNCHANGED <<win, row, item, side, canvas>>

DrawPenUp ==
    /\ Step("penup", "goto")
    /\ Issue("penup", 0)
    /\ UNCHANGED <<win, row, item, side>>

\* goto(-width / 2, height / 2), then the first row
DrawGoto ==
    /\ Step("goto", RowHead(1))
    /\ Issue("goto", <<-width, height>>)
    /\ row' = 1
    /\ item' = 1
    /\ UNCHANGED <<win, side>>

SquarePenDown ==
    /\ Step("pendown", "color")
    /\ Issue("pendown", 0)
    /\ UNCHANGED <<win, row, item, side>>

SquareColor ==
    /\ Step("color", "begin_fill")
    /\ Issue("color", CellColour(row, item))
    /\ UNCHANGED <<win, row, item, side>>

SquareBeginFill ==
    /\ Step("begin_fill", SideHead(0))
    /\ Issue("begin_fill", 0)
    /\ side' = 0
    /\ UNCHANGED <<win, row, item>>

SquareForward ==
    /\ Step("forward", "right")
    /\ Issue("forward", side_length)
    /\ UNCHANGED <<win, row, item, side>>

SquareRight ==
    /\ Step("right", SideHead(side + 1))
    /\ Issue("right", 90)
    /\ side' = side + 1
    /\ UNCHANGED <<win, row, item>>

SquareEndFill ==
    /\ Step("end_fill", "advance")
    /\ Issue("end_fill", 0)
    /\ side' = 0
    /\ UNCHANGED <<win, row, item>>

\* forward(side_length) to the next item
SquareAdvance ==
    /\ Step("advance", ItemHead(row, item + 1))
    /\ Issue("forward", side_length)
    /\ item' = item + 1
    /\ UNCHANGED <<win, row, side>>

\* a row advance that leaves the pen as it is
RowPenUpMissing ==
    /\ Step("row_penup", "row_goto")
    /\ UNCHANGED render

RowPenUp ==
    /\ Step("row_penup", "row_goto")
    /\ Issue("penup", 0)
    /\ UNCHANGED <<win, row, item, side>>

\* goto(-width / 2, ycor() - side_length), then the next row
RowGoto ==
    /\ Step("row_goto", RowHead(row + 1))
    /\ Issue("goto", <<-width, t.y2 - 2 * side_length>>)
    /\ row' = row + 1
    /\ item' = 1
    /\ UNCHANGED <<win, side>>

\* sleep(10)
DrawSleep ==
    /\ Step("sleep", "bye")
    /\ UNCHANGED render

\* self.__win.bye()
DrawBye ==
    /\ Step("bye", "sysexit")
    /\ win' = [win EXCEPT !.open = FALSE]
    /\ UNCHANGED <<t, row, item, side, canvas>>

DrawExit ==
    /\ Step("sysexit", AfterExit)
    /\ UNCHANGED render

DrawPattern ==
    \/ DrawSetup \/ DrawHideTurtle \/ DrawSpeed \/ DrawPenUp \/ DrawGoto
    \/ SquarePenDown \/ SquareColor \/ SquareBeginFill \/ SquareForward
    \/ SquareRight \/ SquareEndFill \/ SquareAdvance
    \/ RowPenUp \/ RowGoto
    \/ DrawSleep \/ DrawBye \/ DrawExit

Next ==
    \/ Run
    \/ MenuDraw \/ MenuChange \/ MenuQuit \/ MenuInvalid
    \/ ChangeConfigFile
    \/ DrawPattern

Spec == Init /\ [][Next]_vars

(***************************************************************************)
(* Main.__create_config_file, one input per step.                          *)
(***************************************************************************)
\* what can be typed at a prompt for a number up to `upper`: no number, or
\* a number at or next to the ends of the range
Typed(upper) ==
    {[number |-> FALSE, value |-> 0]}
    \cup {[number |-> TRUE, value |-> v] : v \in {-1, 0, upper, upper + 1}}

\* what is typed at the colour prompt in a full run of the program
FewTokens == {Abc, NamedRed, Dollars}

\* what is typed at the colour prompt when _colour_input is run on its own
ColourTokens ==
    {Abc, Red, NamedRed, Dollars, <<>>, <<"#">>, <<"#", "a", "b">>,
     <<"#", "a", "b", "c", "d">>, <<"#", "g", "g", "g">>, <<"a", "b", "c", "d">>,
     <<"#", "f", "f", "0", "0", "0", "0", "0">>}

\* "3": a call of __create_config_file
MenuCreate ==
    /\ pc = "menu"
    /\ Cardinality(created) < MaxCreated
    /\ pc' = "create_width"
    /\ entered' = NoEntry
    /\ results' = <<>>
    /\ UNCHANGED <<error, DEFAULT_CONFIG, file, config, render, created>>

\* _int_input and _range_input: whether the input is a number within
\* lower..upper; any other input is asked for again
range_input(inp, lower, upper) ==
    inp.number /\ lower <= inp.value /\ inp.value <= upper

RangeInput(from, to, key, lower, upper) ==
    /\ pc = from
    /\ \E inp \in Typed(upper) :
          IF range_input(inp, lower, upper)
          THEN /\ pc' = to
               /\ entered' = [entered EXCEPT ![key] = inp.value]
          ELSE UNCHANGED <<pc, entered>>
    /\ UNCHANGED <<error, DEFAULT_CONFIG, file, config, render, results, created>>

CreateWidth == RangeInput("create_width", "create_height", "width", 0, MaxWidth)
CreateHeight == RangeInput("create_height", "create_speed", "height", 0, MaxHeight)
CreateSpeed == RangeInput("create_speed", "create_side_length", "speed", 0, MaxSpeed)
CreateSideLength ==
    RangeInput("create_side_length", "colour_input", "side_length", 0, MaxSideLength)

\* while len(results) <= max_
ColourLoop(n) == IF n <= MAX_COLOURS THEN "colour_input" ELSE "create_write"

\* _colour_input: one input of its loop
ColourInputOf(tokens) ==
    /\ pc = "colour_input"
    /\ \E tmp \in tokens :
          IF HEX_CODE_REGEX(tmp)
          THEN /\ results' = Append(results, tmp)
               /\ pc' = ColourLoop(Len(results) + 1)
          ELSE IF tmp = Dollars /\ Len(results) > 1
               THEN /\ pc' = "create_write"
                    /\ UNCHANGED results
               ELSE UNCHANGED <<pc, results>>
    /\ UNCHANGED <<error, DEFAULT_CONFIG, file, config, render, entered, created>>

CreateColours == ColourInputOf(FewTokens)

ColourInput == ColourInputOf(ColourTokens)

\* the file written: json.dumps of ints and of strings of ASCII letters,
\* digits, "#" and "$", read back by json.loads, is the dict itself; its
\* name ends in .json
CreateWrite ==
    /\ pc = "create_write"
    /\ created' = created \cup
          {JsonFile(Cfg(entered.speed, entered.width, entered.height,
                        entered.side_length, results))}
    /\ pc' = "menu"
    /\ entered' = NoEntry
    /\ results' = <<>>
    /\ UNCHANGED <<error, DEFAULT_CONFIG, file, config, render>>

CreateConfigFile ==
    \/ CreateWidth \/ CreateHeight \/ CreateSpeed \/ CreateSideLength
    \/ CreateColours \/ CreateWrite

\* run(): Main().run() with the default file
RunDefault == RunWith({JsonFile(DEFAULT_CONFIG)})

\* the names that can be entered when ./alt-configs/ starts empty: a file
\* written in this run, the default file, or no file
ChangeToCreated ==
    ChangeConfigFileAmong(
        created \cup {JsonFile(DEFAULT_CONFIG),
                      [is_file |-> FALSE, suffix |-> ".json", kind |-> "object",
                       json |-> DEFAULT_CONFIG]})

\* the program run as a script in a directory that holds ./config.json and
\* an empty ./alt-configs/
NextCreate ==
    \/ RunDefault
    \/ MenuDraw \/ MenuChange \/ MenuCreate \/ MenuQuit \/ MenuInvalid
    \/ ChangeToCreated
    \/ CreateConfigFile
    \/ DrawPattern

SpecCreate == Init /\ [][NextCreate]_vars

\* _colour_input called on its own, after the module is loaded
InitColours == Loaded("colour_input")

SpecColours == InitColours /\ [][ColourInput]_vars

(***************************************************************************)
(* Properties.                                                             *)
(***************************************************************************)
Abs(n) == IF n < 0 THEN -n ELSE n

\* k is the integer nearest to n / d (d > 0), the even one of two
NearestEven(k, n, d) ==
    /\ 2 * Abs(n - k * d) <= d
    /\ 2 * Abs(n - k * d) = d => k % 2 = 0

\* __config has returned, and nothing has raised since
Configured == pc \notin {"start", "crashed"}

\* the path is a .json file that holds a dict
DictFile(f) == f.is_file /\ f.suffix = ".json" /\ f.kind = "object"

\* the pause, the teardown and the exit that follow the last row
DonePcs == {"sleep", "bye", "sysexit", "exited"}

ValidPalette(cs) == Len(cs) >= 2 /\ \A i \in 1..Len(cs) : HEX_CODE_REGEX(cs[i])

Rows == Len(pattern)
Cols == IF Len(pattern) = 0 THEN 0 ELSE Len(pattern[1])
EmptyGrid == \A r \in 1..Len(pattern) : Len(pattern[r]) = 0

\* the commands of the positioning: one penup, one goto
Positioning == [NoCommands EXCEPT !.penup = 1, !.goto = 1]

\* C1: with width and height in 0..1000 and side_length in 1..250, the stored
\* pattern has round(height / side_length) rows of round(width / side_length)
\* cells each, round being round-half-to-even.
C1_GridDimensions ==
    ( /\ Configured
      /\ width \in 0..MaxWidth
      /\ height \in 0..MaxHeight
      /\ side_length \in 1..MaxSideLength )
    => /\ NearestEven(Len(pattern), height, side_length)
       /\ \A r \in 1..Len(pattern) : NearestEven(Len(pattern[r]), width, side_length)

\* a tie in the width: 125 / 50 = 2.5 gives 2 cells, in 1 row
C1_Witness ==
    /\ pc = "menu"
    /\ width = 125 /\ height = 50 /\ side_length = 50
    /\ Len(pattern) = 1
    /\ Len(pattern[1]) = 2

\* C2: every cell of a generated grid holds a colour of the palette handed
\* to the generation, which is the stored palette.
C2_CellsFromPalette ==
    /\ \A r \in 1..Len(pattern) : \A c \in 1..Len(pattern[r]) :
          pattern[r][c] \in Range(gen_colours)
    /\ Configured => gen_colours = colours

\* a 2 by 4 grid that uses both colours of its palette
C2_Witness ==
    /\ pc = "menu"
    /\ colours = <<Red, Green>>
    /\ Len(pattern) = 2
    /\ Len(pattern[1]) = 4
    /\ pattern[1][1] = Red
    /\ pattern[2][4] = Green

\* C3: a render pass of a grid of R rows and C columns issues exactly R * C
\* square-draw sequences and exactly R row advances, and no command outside
\* them but the positioning; width = 200, height = 100, side_length = 50
\* gives 8 and 2.
C3_RenderCounts ==
    pc \in DonePcs =>
       /\ canvas.squares = Rows * Cols
       /\ canvas.row_advances = Rows
       /\ canvas.progress = 0
       /\ canvas.cmds = [penup |-> 1 + Rows, goto |-> 1 + Rows,
                         pendown |-> Rows * Cols, color |-> Rows * Cols,
                         begin_fill |-> Rows * Cols, end_fill |-> Rows * Cols,
                         right |-> 4 * Rows * Cols, forward |-> 5 * Rows * Cols]
       /\ (width = 200 /\ height = 100 /\ side_length = 50)
             => canvas.squares = 8 /\ canvas.row_advances = 2

C3_Witness ==
    /\ pc = "exited"
    /\ width = 200 /\ height = 100 /\ side_length = 50
    /\ canvas.squares = 8
    /\ canvas.row_advances = 2

\* C4, as claimed: once positioned, the render pass of an empty grid (0 rows,
\* or rows of 0 columns) is Done and has issued no command but the
\* positioning.
C4_EmptyGridDirectlyDone ==
    (EmptyGrid /\ canvas.positioned) =>
       /\ pc \in DonePcs
       /\ canvas.cmds = Positioning

\* C4, amended: the render pass of an empty grid issues no pendown, colour,
\* fill, forward or turn command and draws no square; with 0 rows it goes
\* from the positioning directly to Done with no command at all; with R rows
\* of 0 columns it issues exactly R row advances (penup, goto) before Done.
C4_EmptyGridDrawsNothing ==
    (EmptyGrid /\ canvas.positioned) =>
       /\ canvas.squares = 0
       /\ canvas.progress = 0
       /\ \A op \in {"pendown", "color", "begin_fill", "end_fill", "forward", "right"} :
             canvas.cmds[op] = 0
       /\ t.pen = "up" /\ ~t.filling
       /\ canvas.cmds.penup = canvas.cmds.goto \/ canvas.cmds.penup = canvas.cmds.goto + 1
       /\ canvas.row_advances = canvas.cmds.goto - 1
       /\ Rows = 0 => (pc \in DonePcs /\ canvas.cmds = Positioning)
       /\ pc \in DonePcs => canvas.row_advances = Rows

\* 2 rows of 0 columns, rendered
C4_Witness ==
    /\ pc = "exited"
    /\ Len(pattern) = 2
    /\ Len(pattern[1]) = 0
    /\ canvas.row_advances = 2
    /\ canvas.squares = 0

\* C5, as claimed: a dict whose side_length is 0 or negative is rejected
\* before any division: nothing raises and the default configuration is in
\* use.
C5_NonPositiveSideLengthRejected ==
    ( /\ pc # "start"
      /\ DictFile(file)
      /\ "side_length" \in DOMAIN file.json
      /\ file.json.side_length <= 0 )
    => /\ error = ""
       /\ config_contents = DEFAULT_CONFIG
       /\ side_length = DEFAULT_CONFIG.side_length

\* C6: applying a dict that lacks a required key does not fail, and the five
\* parameters and the pattern are those of the default configuration.
C6_MissingKeysFallBack ==
    ( /\ pc # "start"
      /\ DictFile(file)
      /\ \E key \in NECESSARY_KEYS : key \notin DOMAIN file.json )
    => /\ pc # "crashed"
       /\ error = ""
       /\ config_contents = DEFAULT_CONFIG
       /\ speed = DEFAULT_CONFIG.speed
       /\ width = DEFAULT_CONFIG.width
       /\ height = DEFAULT_CONFIG.height
       /\ side_length = DEFAULT_CONFIG.side_length
       /\ colours = DEFAULT_CONFIG.colours
       /\ NearestEven(Len(pattern), DEFAULT_CONFIG.height, DEFAULT_CONFIG.side_length)
       /\ \A r \in 1..Len(pattern) :
             /\ NearestEven(Len(pattern[r]), DEFAULT_CONFIG.width,
                            DEFAULT_CONFIG.side_length)
             /\ \A c \in 1..Len(pattern[r]) :
                   pattern[r][c] \in Range(DEFAULT_CONFIG.colours)

\* a dict without "colours", whose other four values are not the default's
C6_Witness ==
    /\ pc = "menu"
    /\ file = JsonFile(Without(Alternative, "colours"))
    /\ speed = DEFAULT_CONFIG.speed
    /\ speed # file.json.speed
    /\ width # file.json.width
    /\ Len(pattern) > 0

\* C7, as claimed: applying a .json file that is no JSON falls back to the
\* default configuration and nothing raises.
C7_MalformedFallsBack ==
    ( /\ pc # "start"
      /\ file.is_file /\ file.suffix = ".json"
      /\ file.kind = "malformed" )
    => /\ pc # "crashed"
       /\ error = ""
       /\ config_contents = DEFAULT_CONFIG

\* C8, as claimed: the colours of a dict with fewer than 2 colours, or with a
\* colour that is no hex code, are never the palette of a generated pattern.
C8_BadColoursRejected ==
    ( /\ Configured
      /\ DictFile(file)
      /\ "colours" \in DOMAIN file.json
      /\ ~ValidPalette(file.json.colours) )
    => /\ gen_colours # file.json.colours
       /\ colours # file.json.colours

\* C9, as claimed: a value of a dict outside its declared range (speed 0..10,
\* width 0..1000, height 0..1000, side_length 1..250) is never the stored one.
C9_OutOfRangeRejected ==
    (pc # "start" /\ DictFile(file)) =>
       /\ ("speed" \in DOMAIN file.json /\ file.json.speed \notin 0..MaxSpeed)
             => speed # file.json.speed
       /\ ("width" \in DOMAIN file.json /\ file.json.width \notin 0..MaxWidth)
             => width # file.json.width
       /\ ("height" \in DOMAIN file.json /\ file.json.height \notin 0..MaxHeight)
             => height # file.json.height
       /\ ("side_length" \in DOMAIN file.json
             /\ file.json.side_length \notin 1..MaxSideLength)
             => side_length # file.json.side_length

\* C10: once the canvas has been torn down, no command reaches the turtle or
\* the screen any more, and the program is at its exit or has ended: the menu
\* is not resumed and no render pass starts.
C10_NothingAfterDone ==
    [][~win.open => /\ t' = t
                    /\ canvas' = canvas
                    /\ win' = win
                    /\ pc' \in {"sysexit", "exited"}]_vars

\* the 2 by 4 grid has been rendered and the program has ended
C10_Witness ==
    /\ pc = "exited"
    /\ ~win.open
    /\ canvas.squares = 8
    /\ canvas.cmds.penup = 3

\* C11: the heading is always a multiple of 90 degrees; cell (r, c), counted
\* from 0, begins at (-width/2 + c * side_length, height/2 - r * side_length)
\* heading east, and once its four sides are traced the cursor is back at
\* that position and heading.
C11_SquareReturnsToStart ==
    /\ t.heading \in {0, 90, 180, 270}
    /\ pc \in {"pendown", "color", "begin_fill", "end_fill", "advance"} =>
          /\ t.heading = 0
          /\ t.x2 = -width + 2 * (item - 1) * side_length
          /\ t.y2 = height - 2 * (row - 1) * side_length

\* the last cell of the 2 by 4 grid, traced: back at (50, 0)
C11_Witness ==
    /\ pc = "advance"
    /\ width = 200 /\ height = 100 /\ side_length = 50
    /\ row = 2 /\ item = 4
    /\ t.x2 = 100 /\ t.y2 = 0
    /\ t.heading = 0
    /\ canvas.cmds.right = 32

\* C12: with C columns, the k-th square-draw sequence (k from 0) sets the
\* colour grid[k div C][k mod C]; a square is only begun in the row that the
\* row advances so far have reached, and a row advance comes after exactly
\* every C-th square.
C12_RowMajorOrder ==
    Cols > 0 =>
       /\ canvas.last = "color" =>
             t.color = pattern[(canvas.squares \div Cols) + 1][(canvas.squares % Cols) + 1]
       /\ canvas.progress > 0 =>
             /\ canvas.squares < Rows * Cols
             /\ canvas.row_advances = canvas.squares \div Cols
       /\ canvas.row_advances * Cols <= canvas.squares
       /\ canvas.squares <= (canvas.row_advances + 1) * Cols
       /\ (canvas.last = "goto" /\ canvas.row_advances > 0) =>
             canvas.squares = canvas.row_advances * Cols

\* square 5 of a 2 by 4 grid takes the colour of row 1, column 1 (from 0)
C12_Witness ==
    /\ canvas.last = "color"
    /\ canvas.squares = 5
    /\ Len(pattern) = 2
    /\ Len(pattern[1]) = 4
    /\ pattern[2] = <<Red, Green, Red, Red>>
    /\ t.color = Green
    /\ canvas.row_advances = 1

\* C13: begin_fill is issued only with the pen down and no fill open,
\* end_fill only with a fill open, every goto only with the pen up and no
\* fill open, and no fill is open when the pass is Done.
C13_PenFillSequencing ==
    [][ /\ canvas'.cmds.begin_fill # canvas.cmds.begin_fill =>
              (t.pen = "down" /\ ~t.filling)
        /\ canvas'.cmds.end_fill # canvas.cmds.end_fill => t.filling
        /\ canvas'.cmds.goto # canvas.cmds.goto => (t.pen = "up" /\ ~t.filling)
        /\ pc' \in DonePcs => ~t'.filling ]_vars

\* the 2 by 4 grid rendered: 8 fills begun and closed, 3 gotos
C13_Witness ==
    /\ pc = "exited"
    /\ canvas.cmds.begin_fill = 8
    /\ canvas.cmds.end_fill = 8
    /\ canvas.cmds.goto = 3
    /\ ~t.filling

\* the dict __config reads for a path that holds a dict: the file's if it
\* has every key, the default otherwise
SourceOf(f) ==
    IF \A key \in NECESSARY_KEYS : key \in DOMAIN f.json THEN f.json ELSE DEFAULT_CONFIG

\* the five parameters and the pattern all come from the dict src
DerivedFrom(src) ==
    /\ speed = src.speed
    /\ width = src.width
    /\ height = src.height
    /\ side_length = src.side_length
    /\ colours = src.colours
    /\ Len(pattern) = (IF src.side_length = 0 THEN -1
                       ELSE IF PyRound(src.height, src.side_length) < 0 THEN 0
                       ELSE PyRound(src.height, src.side_length))
    /\ \A r \in 1..Len(pattern) :
          /\ Len(pattern[r]) = (IF PyRound(src.width, src.side_length) < 0 THEN 0
                                ELSE PyRound(src.width, src.side_length))
          /\ \A c \in 1..Len(pattern[r]) : pattern[r][c] \in Range(src.colours)

\* C14, as claimed: after any run or change of configuration file, the five
\* parameters and the pattern all come from the configuration applied last
\* (all from the default if it was rejected), never some from it and some
\* from before.
C14_ApplicationsIndependent ==
    (pc # "start" /\ DictFile(file)) => DerivedFrom(SourceOf(file))

\* C15, as claimed: whatever is typed, _colour_input with max_ = 10 returns
\* at least 2 and at most max_ colours, each one a hex code ("$$$" ends the
\* loop only once 2 colours are collected).
C15_ColourInputReturns ==
    pc = "create_write" =>
       /\ Len(results) >= 2
       /\ Len(results) <= MAX_COLOURS
       /\ \A i \in 1..Len(results) : HEX_CODE_REGEX(results[i])

\* C16, as claimed: every file __create_config_file writes is within the
\* declared ranges (side_length in 1..250, 2 to 10 hex colours), and applying
\* one never raises and never falls back to the default.
C16_CreatedFilesApply ==
    /\ \A f \in created :
          /\ f.json.speed \in 0..MaxSpeed
          /\ f.json.width \in 0..MaxWidth
          /\ f.json.height \in 0..MaxHeight
          /\ f.json.side_length \in 1..MaxSideLength
          /\ ValidPalette(f.json.colours)
          /\ Len(f.json.colours) <= MAX_COLOURS
    /\ (pc # "start" /\ file \in created) =>
          /\ error = ""
          /\ config_contents = file.json

=============================================================================
